---- MODULE Spec2Model ----
(***************************************************************************)
(* Staged-update core of iceberg-cpp: the ErrorCollector (fail-slow        *)
(* validation accumulator), the PendingUpdate / PendingUpdateTyped<T>      *)
(* interface and the MockPendingUpdate builder that exercises them.        *)
(***************************************************************************)
EXTENDS Integers, Sequences, FiniteSets, TLC

VARIABLES
  errors,               \* ErrorCollector::errors_ (std::vector<Error>)
  name_,                \* MockPendingUpdate::name_
  id_,                  \* MockPendingUpdate::id_
  should_fail_,         \* MockPendingUpdate::should_fail_
  should_fail_commit_,  \* MockPendingUpdate::should_fail_commit_
  apply_called_,        \* MockPendingUpdate::apply_called_
  commit_called_,       \* MockPendingUpdate::commit_called_
  op,                   \* the call the owner made last
  arg,                  \* its argument
  ret,                  \* what it returned
  pre,                  \* errors_ as it was when that call started
  expected,             \* messages of the invalid calls made so far, as the caller counts them
  acc,                  \* per staged update: the errors its accumulator holds
  base,                 \* per staged update: the version of the object it was derived from
  lifecycle,            \* per staged update: Building or the outcome of its last Commit()
  storeVersion,         \* external store: current version of the object
  storeWrites,          \* external store: number of writes submitted to it
  reply,                \* external store: its reply to the last write submitted
  wins,                 \* external store: per base version, the updates whose write applied against it with Success
  applyRun,             \* results of the Apply() calls made since the last mutating call (first and latest)
  other,                \* the fields of a second MockPendingUpdate, the one the owner is not calling
  owners,               \* the handles that own the MockPendingUpdate the calls are made on
  cleared,              \* the errors the builder's last ClearErrors() dropped
  errors_               \* PendingUpdateTyped::errors_ of a builder built against the vector-backed definition

vars == <<errors, name_, id_, should_fail_, should_fail_commit_, apply_called_,
          commit_called_, op, arg, ret, pre, expected,
          acc, base, lifecycle, storeVersion, storeWrites, reply, wins, applyRun, other, owners, cleared, errors_>>

storeVars == <<acc, base, lifecycle, storeVersion, storeWrites, reply, wins>>

mockVars == <<name_, id_, should_fail_, should_fail_commit_, apply_called_, commit_called_>>

(***************************************************************************)
(* Bounds of the model.                                                    *)
(***************************************************************************)
MaxErrors == 3
MaxVersion == 2
MaxWrites == 3

(***************************************************************************)
(* Values.                                                                 *)
(***************************************************************************)
kInvalidArgument == "InvalidArgument"
kValidationFailed == "ValidationFailed"
kCommitFailed == "CommitFailed"
kCommitStateUnknown == "CommitStateUnknown"

MaxNameLength == 100

MsgNameEmpty == "Name cannot be empty"
MsgNameTooLong == "Name cannot exceed 100 characters"
MsgIdNegative == "ID must be non-negative"
MsgMockValidation == "Mock validation failed"
MsgMockCommit == "Mock commit failed"
CheckHeader == "Validation failed due to the following errors:\n"
BulletPrefix == "  - "

Name100 == "nnnnnnnnnnnnnnnnnnnnnnnnnnnnnnnnnnnnnnnnnnnnnnnnnnnnnnnnnnnnnnnnnnnnnnnnnnnnnnnnnnnnnnnnnnnnnnnnnnnn"
Name101 == "nnnnnnnnnnnnnnnnnnnnnnnnnnnnnnnnnnnnnnnnnnnnnnnnnnnnnnnnnnnnnnnnnnnnnnnnnnnnnnnnnnnnnnnnnnnnnnnnnnnnn"

Names == {"", "valid_name", Name100, Name101}
Ids == {-5, 0, 42}
\* The message of the error another collector's CheckErrors() returned for one
\* recorded "Name cannot be empty": what AddError(Error) receives when an
\* aggregate is propagated from another component.
NestedMessage == "Validation failed due to the following errors:\n  - Name cannot be empty\n"
Messages == {"External error message", "", NestedMessage, MsgIdNegative}
ErrorKinds == {kInvalidArgument, kValidationFailed}
ErrorValues == [kind : ErrorKinds, message : Messages]
ExternalErrors == {[kind |-> kInvalidArgument, message |-> "External error message"],
                   [kind |-> kValidationFailed, message |-> NestedMessage]}

Updates == {1, 2}

Error(kind, message) == [kind |-> kind, message |-> message]

NoValue == [none |-> TRUE]
OkStatus == [ok |-> TRUE, kind |-> "OK", message |-> "", value |-> NoValue]
Unexpected(kind, message) == [ok |-> FALSE, kind |-> kind, message |-> message, value |-> NoValue]
OkResult(v) == [ok |-> TRUE, kind |-> "OK", message |-> "", value |-> v]
MockSnapshot(name) == [name |-> name]
Self == [self |-> TRUE]
Void == [void |-> TRUE]
NoArg == [noarg |-> TRUE]

(***************************************************************************)
(* ErrorCollector (iceberg/util/error_collector.h).                        *)
(***************************************************************************)
\* A collector that stops recording after the first error (fail-fast).
AddErrorFirstOnly(errs, kind, message) ==
  IF Len(errs) = 0 THEN Append(errs, Error(kind, message)) ELSE errs

\* A collector that drops an error equal to one it already holds.
AddErrorDedup(errs, kind, message) ==
  IF \E i \in 1..Len(errs) : errs[i] = Error(kind, message) THEN errs
  ELSE Append(errs, Error(kind, message))

AddError(errs, kind, message) == Append(errs, Error(kind, message))

\* AddError(Error) that files every existing error under ValidationFailed.
AddErrorObjRekinded(errs, err) == Append(errs, Error(kValidationFailed, err.message))

AddErrorObj(errs, err) == Append(errs, err)

\* errors_.size() > 1 in place of !errors_.empty().
HasErrorsMoreThanOne(errs) == Len(errs) > 1

HasErrors(errs) == ~(Len(errs) = 0)

ErrorCount(errs) == Len(errs)

\* The loop run from the last recorded error to the first.
RECURSIVE FormatErrorsReversed(_, _, _)
FormatErrorsReversed(errs, i, error_msg) ==
  IF i > Len(errs) THEN error_msg
  ELSE FormatErrorsReversed(errs, i + 1,
         error_msg \o BulletPrefix \o errs[Len(errs) + 1 - i].message \o "\n")

RECURSIVE FormatErrors(_, _, _)
FormatErrors(errs, i, error_msg) ==
  IF i > Len(errs) THEN error_msg
  ELSE FormatErrors(errs, i + 1, error_msg \o BulletPrefix \o errs[i].message \o "\n")

\* CheckErrors() reporting the aggregate under the kind of the first recorded error.
CheckErrorsFirstKind(errs) ==
  IF ~(Len(errs) = 0)
  THEN Unexpected(errs[1].kind, FormatErrors(errs, 1, CheckHeader))
  ELSE OkStatus

CheckErrors(errs) ==
  IF ~(Len(errs) = 0)
  THEN Unexpected(kValidationFailed, FormatErrors(errs, 1, CheckHeader))
  ELSE OkStatus

\* pop_back() in place of clear().
ClearErrorsPopBack(errs) == IF Len(errs) = 0 THEN errs ELSE SubSeq(errs, 1, Len(errs) - 1)

ClearErrors(errs) == << >>

Errors(errs) == errs

(***************************************************************************)
(* Reading an aggregate message back, as a caller or a test does.          *)
(***************************************************************************)
\* The positions of the line breaks of s, and the k-th of them (0 for k = 0).
LineBreaks(s) == {i \in 1..Len(s) : SubSeq(s, i, i) = "\n"}
LineBreakAt(s, k) ==
  IF k = 0 THEN 0
  ELSE CHOOSE i \in LineBreaks(s) : Cardinality({j \in LineBreaks(s) : j < i}) = k - 1

\* The lines of s (each ended by a line break) and what follows the last one.
SplitLines(s) ==
  LET n == Cardinality(LineBreaks(s)) IN
    [lines |-> [k \in 1..n |-> SubSeq(s, LineBreakAt(s, k - 1) + 1, LineBreakAt(s, k) - 1)],
     rest |-> SubSeq(s, LineBreakAt(s, n) + 1, Len(s))]

LinesOf(s) == SplitLines(s)

HasLineBreak(s) == LineBreaks(s) # {}

StartsWith(s, prefix) == Len(s) >= Len(prefix) /\ SubSeq(s, 1, Len(prefix)) = prefix

\* The first position at or after from where sub occurs in s, 0 when none.
FindFrom(s, sub, from) ==
  LET at == {i \in from..(Len(s) - Len(sub) + 1) : SubSeq(s, i, i + Len(sub) - 1) = sub} IN
    IF at = {} THEN 0 ELSE CHOOSE i \in at : \A j \in at : i <= j

Contains(s, sub) == FindFrom(s, sub, 1) # 0

\* msgs[j..] occur in s one after the other, without overlap, from position from on.
RECURSIVE ContainsInOrder(_, _, _, _)
ContainsInOrder(s, msgs, j, from) ==
  IF j > Len(msgs) THEN TRUE
  ELSE LET at == FindFrom(s, msgs[j], from) IN
         /\ at # 0
         /\ ContainsInOrder(s, msgs, j + 1, at + Len(msgs[j]))

MessagesOf(errs) == [i \in 1..Len(errs) |-> errs[i].message]
BulletLines(errs) == [i \in 1..Len(errs) |-> BulletPrefix \o errs[i].message]
HeaderLine == "Validation failed due to the following errors:"

(***************************************************************************)
(* MockPendingUpdate (iceberg/test/pending_update_test.cc), a concrete     *)
(* PendingUpdateTyped<MockSnapshot>.  Its AddError / CheckErrors are the   *)
(* ErrorCollector's, reached through PendingUpdateTyped's delegating       *)
(* helpers.                                                                *)
(***************************************************************************)
\* The fields of a MockPendingUpdate as its constructor leaves them.
NewInstance ==
  [errors |-> << >>, name_ |-> "", id_ |-> 0, should_fail_ |-> FALSE,
   should_fail_commit_ |-> FALSE, apply_called_ |-> FALSE, commit_called_ |-> FALSE,
   expected |-> << >>]

Init ==
  /\ errors = << >>
  /\ name_ = ""
  /\ id_ = 0
  /\ should_fail_ = FALSE
  /\ should_fail_commit_ = FALSE
  /\ apply_called_ = FALSE
  /\ commit_called_ = FALSE
  /\ op = "Init"
  /\ arg = NoArg
  /\ ret = Void
  /\ pre = << >>
  /\ expected = << >>
  /\ acc = [u \in Updates |-> << >>]
  /\ base = [u \in Updates |-> 0]
  /\ lifecycle = [u \in Updates |-> "Building"]
  /\ storeVersion = 0
  /\ storeWrites = 0
  /\ reply = "None"
  /\ wins = [v \in 0..MaxVersion |-> {}]
  /\ applyRun = << >>
  /\ other = NewInstance
  /\ owners = {"builder"}
  /\ cleared = << >>
  /\ errors_ = << >>

\* What the caller of the builder counts as an invalid call, and the
\* message it expects for it.
InvalidName(name) == name = "" \/ Len(name) > MaxNameLength
InvalidId(id) == id < 0
ExpectedNameMessage(name) == IF name = "" THEN MsgNameEmpty ELSE MsgNameTooLong

\* SetName on objects whose error collector is one static object.
SetNameSharedCollector(name) ==
  /\ op' = "SetName"
  /\ arg' = [name |-> name]
  /\ ret' = Self
  /\ pre' = errors
  /\ expected' = IF InvalidName(name) THEN Append(expected, ExpectedNameMessage(name))
                 ELSE expected
  /\ IF name = ""
     THEN /\ Len(errors) < MaxErrors
          /\ errors' = AddError(errors, kInvalidArgument, MsgNameEmpty)
          /\ other' = [other EXCEPT !.errors = AddError(@, kInvalidArgument, MsgNameEmpty)]
          /\ UNCHANGED name_
     ELSE IF Len(name) > MaxNameLength
     THEN /\ Len(errors) < MaxErrors
          /\ errors' = AddError(errors, kInvalidArgument, MsgNameTooLong)
          /\ other' = [other EXCEPT !.errors = AddError(@, kInvalidArgument, MsgNameTooLong)]
          /\ UNCHANGED name_
     ELSE /\ name_' = name
          /\ UNCHANGED <<errors, other>>
  /\ UNCHANGED <<id_, should_fail_, should_fail_commit_, apply_called_, commit_called_>>
  /\ UNCHANGED storeVars
  /\ UNCHANGED <<owners, cleared, errors_>>
  /\ applyRun' = << >>

\* SetName that stages the name before it validates it.
SetNameStagesInvalid(name) ==
  /\ op' = "SetName"
  /\ arg' = [name |-> name]
  /\ ret' = Self
  /\ pre' = errors
  /\ expected' = IF InvalidName(name) THEN Append(expected, ExpectedNameMessage(name))
                 ELSE expected
  /\ name_' = name
  /\ IF name = ""
     THEN /\ Len(errors) < MaxErrors
          /\ errors' = AddError(errors, kInvalidArgument, MsgNameEmpty)
     ELSE IF Len(name) > MaxNameLength
     THEN /\ Len(errors) < MaxErrors
          /\ errors' = AddError(errors, kInvalidArgument, MsgNameTooLong)
     ELSE UNCHANGED errors
  /\ UNCHANGED <<id_, should_fail_, should_fail_commit_, apply_called_, commit_called_>>
  /\ UNCHANGED storeVars
  /\ UNCHANGED <<other, owners, cleared, errors_>>
  /\ applyRun' = << >>

SetName(name) ==
  /\ op' = "SetName"
  /\ arg' = [name |-> name]
  /\ ret' = Self
  /\ pre' = errors
  /\ expected' = IF InvalidName(name) THEN Append(expected, ExpectedNameMessage(name))
                 ELSE expected
  /\ IF name = ""
     THEN /\ Len(errors) < MaxErrors
          /\ errors' = AddError(errors, kInvalidArgument, MsgNameEmpty)
          /\ UNCHANGED name_
     ELSE IF Len(name) > MaxNameLength
     THEN /\ Len(errors) < MaxErrors
          /\ errors' = AddError(errors, kInvalidArgument, MsgNameTooLong)
          /\ UNCHANGED name_
     ELSE /\ name_' = name
          /\ UNCHANGED errors
  /\ UNCHANGED <<id_, should_fail_, should_fail_commit_, apply_called_, commit_called_>>
  /\ UNCHANGED storeVars
  /\ UNCHANGED <<other, owners, cleared, errors_>>
  /\ applyRun' = << >>

\* SetId that gives up as soon as an earlier call has recorded an error.
SetIdFailFast(id) ==
  /\ op' = "SetId"
  /\ arg' = [id |-> id]
  /\ ret' = Self
  /\ pre' = errors
  /\ expected' = IF InvalidId(id) THEN Append(expected, MsgIdNegative) ELSE expected
  /\ IF HasErrors(errors)
     THEN UNCHANGED <<errors, id_>>
     ELSE IF id < 0
     THEN /\ Len(errors) < MaxErrors
          /\ errors' = AddError(errors, kInvalidArgument, MsgIdNegative)
          /\ UNCHANGED id_
     ELSE /\ id_' = id
          /\ UNCHANGED errors
  /\ UNCHANGED <<name_, should_fail_, should_fail_commit_, apply_called_, commit_called_>>
  /\ UNCHANGED storeVars
  /\ UNCHANGED <<other, owners, cleared, errors_>>
  /\ applyRun' = << >>

SetId(id) ==
  /\ op' = "SetId"
  /\ arg' = [id |-> id]
  /\ ret' = Self
  /\ pre' = errors
  /\ expected' = IF InvalidId(id) THEN Append(expected, MsgIdNegative) ELSE expected
  /\ IF id < 0
     THEN /\ Len(errors) < MaxErrors
          /\ errors' = AddError(errors, kInvalidArgument, MsgIdNegative)
          /\ UNCHANGED id_
     ELSE /\ id_' = id
          /\ UNCHANGED errors
  /\ UNCHANGED <<name_, should_fail_, should_fail_commit_, apply_called_, commit_called_>>
  /\ UNCHANGED storeVars
  /\ UNCHANGED <<other, owners, cleared, errors_>>
  /\ applyRun' = << >>

TestAddExistingError(err) ==
  /\ Len(errors) < MaxErrors
  /\ op' = "TestAddExistingError"
  /\ arg' = [err |-> err]
  /\ ret' = Void
  /\ pre' = errors
  /\ expected' = Append(expected, err.message)
  /\ errors' = AddErrorObj(errors, err)
  /\ UNCHANGED mockVars
  /\ UNCHANGED storeVars
  /\ UNCHANGED <<other, owners, cleared, errors_>>
  /\ applyRun' = << >>

\* Apply() running the subclass logic before it looks at the accumulator.
ApplySemanticFirst ==
  /\ op' = "Apply"
  /\ arg' = NoArg
  /\ pre' = errors
  /\ LET error_status == CheckErrors(errors) IN
       IF should_fail_
       THEN /\ ret' = Unexpected(kValidationFailed, MsgMockValidation)
            /\ UNCHANGED apply_called_
       ELSE IF ~error_status.ok
       THEN /\ ret' = Unexpected(error_status.kind, error_status.message)
            /\ apply_called_' = TRUE
       ELSE /\ apply_called_' = TRUE
            /\ ret' = OkResult(MockSnapshot(name_))
  /\ UNCHANGED <<errors, name_, id_, should_fail_, should_fail_commit_, commit_called_, expected>>
  /\ UNCHANGED storeVars
  /\ UNCHANGED <<other, owners, cleared, errors_>>
  /\ applyRun' = IF applyRun = << >> THEN <<ret'>> ELSE <<applyRun[1], ret'>>

\* Apply() that hands the accumulated errors out and forgets them.
ApplyConsumesErrors ==
  /\ op' = "Apply"
  /\ arg' = NoArg
  /\ pre' = errors
  /\ LET error_status == CheckErrors(errors) IN
       IF ~error_status.ok
       THEN /\ ret' = Unexpected(error_status.kind, error_status.message)
            /\ UNCHANGED apply_called_
       ELSE IF should_fail_
       THEN /\ ret' = Unexpected(kValidationFailed, MsgMockValidation)
            /\ UNCHANGED apply_called_
       ELSE /\ apply_called_' = TRUE
            /\ ret' = OkResult(MockSnapshot(name_))
  /\ errors' = << >>
  /\ UNCHANGED <<name_, id_, should_fail_, should_fail_commit_, commit_called_, expected>>
  /\ UNCHANGED storeVars
  /\ UNCHANGED <<other, owners, cleared, errors_>>
  /\ applyRun' = IF applyRun = << >> THEN <<ret'>> ELSE <<applyRun[1], ret'>>

\* Apply() that moves name_ into the snapshot (snapshot.name = std::move(name_)).
ApplyMovesName ==
  /\ op' = "Apply"
  /\ arg' = NoArg
  /\ pre' = errors
  /\ LET error_status == CheckErrors(errors) IN
       IF ~error_status.ok
       THEN /\ ret' = Unexpected(error_status.kind, error_status.message)
            /\ UNCHANGED <<apply_called_, name_>>
       ELSE IF should_fail_
       THEN /\ ret' = Unexpected(kValidationFailed, MsgMockValidation)
            /\ UNCHANGED <<apply_called_, name_>>
       ELSE /\ apply_called_' = TRUE
            /\ ret' = OkResult(MockSnapshot(name_))
            /\ name_' = ""
  /\ UNCHANGED <<errors, id_, should_fail_, should_fail_commit_, commit_called_, expected>>
  /\ UNCHANGED storeVars
  /\ UNCHANGED <<other, owners, cleared, errors_>>
  /\ applyRun' = IF applyRun = << >> THEN <<ret'>> ELSE <<applyRun[1], ret'>>

\* Apply() that returns a default-constructed snapshot.
ApplyEmptySnapshot ==
  /\ op' = "Apply"
  /\ arg' = NoArg
  /\ pre' = errors
  /\ LET error_status == CheckErrors(errors) IN
       IF ~error_status.ok
       THEN /\ ret' = Unexpected(error_status.kind, error_status.message)
            /\ UNCHANGED apply_called_
       ELSE IF should_fail_
       THEN /\ ret' = Unexpected(kValidationFailed, MsgMockValidation)
            /\ UNCHANGED apply_called_
       ELSE /\ apply_called_' = TRUE
            /\ ret' = OkResult(MockSnapshot(""))
  /\ UNCHANGED <<errors, name_, id_, should_fail_, should_fail_commit_, commit_called_, expected>>
  /\ UNCHANGED storeVars
  /\ UNCHANGED <<other, owners, cleared, errors_>>
  /\ applyRun' = IF applyRun = << >> THEN <<ret'>> ELSE <<applyRun[1], ret'>>

\* Apply() reporting the subclass's semantic failure under InvalidArgument.
ApplySemanticInvalidArgument ==
  /\ op' = "Apply"
  /\ arg' = NoArg
  /\ pre' = errors
  /\ LET error_status == CheckErrors(errors) IN
       IF ~error_status.ok
       THEN /\ ret' = Unexpected(error_status.kind, error_status.message)
            /\ UNCHANGED apply_called_
       ELSE IF should_fail_
       THEN /\ ret' = Unexpected(kInvalidArgument, MsgMockValidation)
            /\ UNCHANGED apply_called_
       ELSE /\ apply_called_' = TRUE
            /\ ret' = OkResult(MockSnapshot(name_))
  /\ UNCHANGED <<errors, name_, id_, should_fail_, should_fail_commit_, commit_called_, expected>>
  /\ UNCHANGED storeVars
  /\ UNCHANGED <<other, owners, cleared, errors_>>
  /\ applyRun' = IF applyRun = << >> THEN <<ret'>> ELSE <<applyRun[1], ret'>>

\* Apply() that records the subclass's semantic failure in the accumulator
\* and reports it through a second CheckErrors().
ApplyRecordsFailure ==
  /\ op' = "Apply"
  /\ arg' = NoArg
  /\ pre' = errors
  /\ LET error_status == CheckErrors(errors) IN
       IF ~error_status.ok
       THEN /\ ret' = Unexpected(error_status.kind, error_status.message)
            /\ UNCHANGED <<apply_called_, errors>>
       ELSE IF should_fail_
       THEN /\ errors' = AddError(errors, kValidationFailed, MsgMockValidation)
            /\ ret' = CheckErrors(errors')
            /\ UNCHANGED apply_called_
       ELSE /\ apply_called_' = TRUE
            /\ ret' = OkResult(MockSnapshot(name_))
            /\ UNCHANGED errors
  /\ UNCHANGED <<name_, id_, should_fail_, should_fail_commit_, commit_called_, expected>>
  /\ UNCHANGED storeVars
  /\ UNCHANGED <<other, owners, cleared, errors_>>
  /\ applyRun' = IF applyRun = << >> THEN <<ret'>> ELSE <<applyRun[1], ret'>>

Apply ==
  /\ op' = "Apply"
  /\ arg' = NoArg
  /\ pre' = errors
  /\ LET error_status == CheckErrors(errors) IN
       IF ~error_status.ok
       THEN /\ ret' = Unexpected(error_status.kind, error_status.message)
            /\ UNCHANGED apply_called_
       ELSE IF should_fail_
       THEN /\ ret' = Unexpected(kValidationFailed, MsgMockValidation)
            /\ UNCHANGED apply_called_
       ELSE /\ apply_called_' = TRUE
            /\ ret' = OkResult(MockSnapshot(name_))
  /\ UNCHANGED <<errors, name_, id_, should_fail_, should_fail_commit_, commit_called_, expected>>
  /\ UNCHANGED storeVars
  /\ UNCHANGED <<other, owners, cleared, errors_>>
  /\ applyRun' = IF applyRun = << >> THEN <<ret'>> ELSE <<applyRun[1], ret'>>

\* Commit() asking the store before it looks at the accumulator.
CommitStoreFirst ==
  /\ op' = "Commit"
  /\ arg' = NoArg
  /\ pre' = errors
  /\ LET error_status == CheckErrors(errors) IN
       IF should_fail_commit_
       THEN /\ ret' = Unexpected(kCommitFailed, MsgMockCommit)
            /\ UNCHANGED commit_called_
       ELSE IF ~error_status.ok
       THEN /\ ret' = error_status
            /\ commit_called_' = TRUE
       ELSE /\ commit_called_' = TRUE
            /\ ret' = OkStatus
  /\ UNCHANGED <<errors, name_, id_, should_fail_, should_fail_commit_, apply_called_, expected>>
  /\ UNCHANGED storeVars
  /\ UNCHANGED <<other, owners, cleared, errors_>>
  /\ UNCHANGED applyRun

\* Commit() reporting the store's refusal as a validation failure.
CommitCollapsed ==
  /\ op' = "Commit"
  /\ arg' = NoArg
  /\ pre' = errors
  /\ LET error_status == CheckErrors(errors) IN
       IF ~error_status.ok
       THEN /\ ret' = error_status
            /\ UNCHANGED commit_called_
       ELSE IF should_fail_commit_
       THEN /\ ret' = Unexpected(kValidationFailed, MsgMockCommit)
            /\ UNCHANGED commit_called_
       ELSE /\ commit_called_' = TRUE
            /\ ret' = OkStatus
  /\ UNCHANGED <<errors, name_, id_, should_fail_, should_fail_commit_, apply_called_, expected>>
  /\ UNCHANGED storeVars
  /\ UNCHANGED <<other, owners, cleared, errors_>>
  /\ UNCHANGED applyRun

\* Commit() marking the commit as performed before it asks the store.
CommitMarksFirst ==
  /\ op' = "Commit"
  /\ arg' = NoArg
  /\ pre' = errors
  /\ LET error_status == CheckErrors(errors) IN
       IF ~error_status.ok
       THEN /\ ret' = error_status
            /\ UNCHANGED commit_called_
       ELSE IF should_fail_commit_
       THEN /\ ret' = Unexpected(kCommitFailed, MsgMockCommit)
            /\ commit_called_' = TRUE
       ELSE /\ commit_called_' = TRUE
            /\ ret' = OkStatus
  /\ UNCHANGED <<errors, name_, id_, should_fail_, should_fail_commit_, apply_called_, expected>>
  /\ UNCHANGED storeVars
  /\ UNCHANGED <<other, owners, cleared, errors_>>
  /\ UNCHANGED applyRun

\* Commit() that takes the mark back when the store refuses a later commit.
CommitResetsOnFailure ==
  /\ op' = "Commit"
  /\ arg' = NoArg
  /\ pre' = errors
  /\ LET error_status == CheckErrors(errors) IN
       IF ~error_status.ok
       THEN /\ ret' = error_status
            /\ UNCHANGED commit_called_
       ELSE IF should_fail_commit_
       THEN /\ ret' = Unexpected(kCommitFailed, MsgMockCommit)
            /\ commit_called_' = FALSE
       ELSE /\ commit_called_' = TRUE
            /\ ret' = OkStatus
  /\ UNCHANGED <<errors, name_, id_, should_fail_, should_fail_commit_, apply_called_, expected>>
  /\ UNCHANGED storeVars
  /\ UNCHANGED <<other, owners, cleared, errors_>>
  /\ UNCHANGED applyRun

\* Commit() that refuses an update whose Apply() has not been called.
CommitRequiresApply ==
  /\ op' = "Commit"
  /\ arg' = NoArg
  /\ pre' = errors
  /\ LET error_status == CheckErrors(errors) IN
       IF ~error_status.ok
       THEN /\ ret' = error_status
            /\ UNCHANGED commit_called_
       ELSE IF ~apply_called_
       THEN /\ ret' = Unexpected(kValidationFailed, MsgMockValidation)
            /\ UNCHANGED commit_called_
       ELSE IF should_fail_commit_
       THEN /\ ret' = Unexpected(kCommitFailed, MsgMockCommit)
            /\ UNCHANGED commit_called_
       ELSE /\ commit_called_' = TRUE
            /\ ret' = OkStatus
  /\ UNCHANGED <<errors, name_, id_, should_fail_, should_fail_commit_, apply_called_, expected>>
  /\ UNCHANGED storeVars
  /\ UNCHANGED <<other, owners, cleared, errors_>>
  /\ UNCHANGED applyRun

Commit ==
  /\ op' = "Commit"
  /\ arg' = NoArg
  /\ pre' = errors
  /\ LET error_status == CheckErrors(errors) IN
       IF ~error_status.ok
       THEN /\ ret' = error_status
            /\ UNCHANGED commit_called_
       ELSE IF should_fail_commit_
       THEN /\ ret' = Unexpected(kCommitFailed, MsgMockCommit)
            /\ UNCHANGED commit_called_
       ELSE /\ commit_called_' = TRUE
            /\ ret' = OkStatus
  /\ UNCHANGED <<errors, name_, id_, should_fail_, should_fail_commit_, apply_called_, expected>>
  /\ UNCHANGED storeVars
  /\ UNCHANGED <<other, owners, cleared, errors_>>
  /\ UNCHANGED applyRun

\* A call resolved by the static type of the handle (Commit not virtual).
DispatchStatic(staticType, dynamicType) == staticType

\* A virtual call: the override of the object's dynamic type runs, whatever
\* the static type of the handle it is made through.
Dispatch(staticType, dynamicType) == dynamicType

\* base_ptr->Commit() through a std::unique_ptr<PendingUpdate> that owns the
\* MockPendingUpdate.  PendingUpdate::Commit itself is pure virtual: it has
\* no body to run.
BaseCommit ==
  /\ op' = "BaseCommit"
  /\ arg' = [handle |-> "PendingUpdate"]
  /\ pre' = errors
  /\ IF Dispatch("PendingUpdate", "MockPendingUpdate") = "MockPendingUpdate"
     THEN LET error_status == CheckErrors(errors) IN
            IF ~error_status.ok
            THEN /\ ret' = error_status
                 /\ UNCHANGED commit_called_
            ELSE IF should_fail_commit_
            THEN /\ ret' = Unexpected(kCommitFailed, MsgMockCommit)
                 /\ UNCHANGED commit_called_
            ELSE /\ commit_called_' = TRUE
                 /\ ret' = OkStatus
     ELSE /\ ret' = [aborted |-> TRUE]
          /\ UNCHANGED commit_called_
  /\ UNCHANGED <<errors, name_, id_, should_fail_, should_fail_commit_, apply_called_, expected>>
  /\ UNCHANGED storeVars
  /\ UNCHANGED <<other, owners, cleared, errors_>>
  /\ UNCHANGED applyRun

SetShouldFail(fail) ==
  /\ op' = "SetShouldFail"
  /\ arg' = [fail |-> fail]
  /\ ret' = Void
  /\ pre' = errors
  /\ should_fail_' = fail
  /\ UNCHANGED <<errors, name_, id_, should_fail_commit_, apply_called_, commit_called_, expected>>
  /\ UNCHANGED storeVars
  /\ UNCHANGED <<other, owners, cleared, errors_>>
  /\ applyRun' = << >>

SetShouldFailCommit(fail) ==
  /\ op' = "SetShouldFailCommit"
  /\ arg' = [fail |-> fail]
  /\ ret' = Void
  /\ pre' = errors
  /\ should_fail_commit_' = fail
  /\ UNCHANGED <<errors, name_, id_, should_fail_, apply_called_, commit_called_, expected>>
  /\ UNCHANGED storeVars
  /\ UNCHANGED <<other, owners, cleared, errors_>>
  /\ applyRun' = << >>

ApplyCalled ==
  /\ op' = "ApplyCalled"
  /\ arg' = NoArg
  /\ ret' = [bool |-> apply_called_]
  /\ pre' = errors
  /\ UNCHANGED <<errors, mockVars, expected>>
  /\ UNCHANGED storeVars
  /\ UNCHANGED <<other, owners, cleared, errors_>>
  /\ UNCHANGED applyRun

CommitCalled ==
  /\ op' = "CommitCalled"
  /\ arg' = NoArg
  /\ ret' = [bool |-> commit_called_]
  /\ pre' = errors
  /\ UNCHANGED <<errors, mockVars, expected>>
  /\ UNCHANGED storeVars
  /\ UNCHANGED <<other, owners, cleared, errors_>>
  /\ UNCHANGED applyRun

Next ==
  \/ \E name \in Names : SetName(name)
  \/ \E id \in Ids : SetId(id)
  \/ \E err \in ExternalErrors : TestAddExistingError(err)
  \/ Apply
  \/ Commit
  \/ BaseCommit
  \/ \E fail \in BOOLEAN : SetShouldFail(fail)
  \/ \E fail \in BOOLEAN : SetShouldFailCommit(fail)
  \/ ApplyCalled
  \/ CommitCalled

Spec == Init /\ [][Next]_vars

(***************************************************************************)
(* Two MockPendingUpdate objects.  The owner calls one of them at a time;  *)
(* the fields of the one it is not calling are kept in other.              *)
(***************************************************************************)
MaxErrorsTwo == 1

TwoNames == {"", "valid_name"}
TwoIds == {-5, 42}


\* The owner turns from the object it was calling to the other one.
Switch ==
  /\ op' = "Switch"
  /\ arg' = NoArg
  /\ ret' = Void
  /\ other' = [errors |-> errors, name_ |-> name_, id_ |-> id_,
               should_fail_ |-> should_fail_, should_fail_commit_ |-> should_fail_commit_,
               apply_called_ |-> apply_called_, commit_called_ |-> commit_called_,
               expected |-> expected]
  /\ errors' = other.errors
  /\ name_' = other.name_
  /\ id_' = other.id_
  /\ should_fail_' = other.should_fail_
  /\ should_fail_commit_' = other.should_fail_commit_
  /\ apply_called_' = other.apply_called_
  /\ commit_called_' = other.commit_called_
  /\ expected' = other.expected
  /\ pre' = other.errors
  /\ applyRun' = << >>
  /\ UNCHANGED storeVars
  /\ UNCHANGED <<owners, cleared, errors_>>

NextTwo ==
  \/ \E name \in TwoNames : Len(errors) < MaxErrorsTwo /\ SetName(name)
  \/ \E id \in TwoIds : Len(errors) < MaxErrorsTwo /\ SetId(id)
  \/ Apply
  \/ Commit
  \/ \E fail \in BOOLEAN : SetShouldFailCommit(fail)
  \/ Switch

SpecTwo == Init /\ [][NextTwo]_vars

(***************************************************************************)
(* Ownership of a staged update: the special member functions the class    *)
(* definitions declare, what the language makes of them, and what          *)
(* constructing an update from another one or handing its owning pointer   *)
(* over does.                                                              *)
(***************************************************************************)
Classes == {"PendingUpdate", "PendingUpdateTyped", "MockPendingUpdate"}

\* What each class definition declares: its base class, whether it declares
\* a destructor, and its copy and move constructors ("none": not declared
\* by the class definition).  Every data member (ErrorCollector, std::string,
\* int64_t, bool) can be copied and moved, so only the bases decide.
SpecialMembers(c) ==
  IF c = "PendingUpdate"
  THEN [base |-> "none", dtor |-> "user", copyCtor |-> "deleted", moveCtor |-> "defaulted"]
  ELSE IF c = "PendingUpdateTyped"
  THEN [base |-> "PendingUpdate", dtor |-> "user", copyCtor |-> "none", moveCtor |-> "none"]
  ELSE [base |-> "PendingUpdateTyped", dtor |-> "none", copyCtor |-> "none", moveCtor |-> "none"]

\* A move constructor exists when the class declares one, or when the class
\* declares no copy constructor, no move constructor and no destructor (the
\* implicit one).
MoveCtorDeclared(c) ==
  LET d == SpecialMembers(c) IN
    \/ d.moveCtor = "defaulted"
    \/ (d.moveCtor = "none" /\ d.copyCtor = "none" /\ d.dtor = "none")

RECURSIVE CopyConstructible(_)
RECURSIVE MoveCtorUsable(_)
RECURSIVE MoveConstructible(_)

\* T(const T&) is well-formed: the copy constructor is not deleted, neither
\* by the class definition, nor by a declared move constructor, nor by a base
\* that cannot be copied.
CopyConstructible(c) ==
  LET d == SpecialMembers(c) IN
    /\ d.copyCtor # "deleted"
    /\ d.moveCtor = "none"
    /\ (d.base = "none" \/ CopyConstructible(d.base))

\* The defaulted move constructor is not defined as deleted: the base can be
\* constructed from an rvalue.
MoveCtorUsable(c) ==
  LET d == SpecialMembers(c) IN
    /\ MoveCtorDeclared(c)
    /\ (d.base = "none" \/ MoveConstructible(d.base))

\* T(T&&) is well-formed: overload resolution takes the move constructor
\* when there is a usable one and the copy constructor otherwise.
MoveConstructible(c) == MoveCtorUsable(c) \/ CopyConstructible(c)

Handles == {"builder", "aggregator"}

\* The fields of the MockPendingUpdate the calls are made on.
ThisInstance ==
  [errors |-> errors, name_ |-> name_, id_ |-> id_, should_fail_ |-> should_fail_,
   should_fail_commit_ |-> should_fail_commit_, apply_called_ |-> apply_called_,
   commit_called_ |-> commit_called_, expected |-> expected]

\* MockPendingUpdate copy(update);  An ill-formed construction is rejected
\* when the program is built: nothing is constructed and no state changes.
CopyConstruct ==
  /\ op' = "CopyConstruct"
  /\ arg' = NoArg
  /\ ret' = [built |-> CopyConstructible("MockPendingUpdate")]
  /\ pre' = errors
  /\ IF CopyConstructible("MockPendingUpdate")
     THEN /\ other' = ThisInstance
          /\ owners' = owners \cup {"copy"}
     ELSE UNCHANGED <<other, owners>>
  /\ UNCHANGED <<errors, mockVars, expected, cleared, errors_>>
  /\ UNCHANGED storeVars
  /\ applyRun' = << >>

\* MockPendingUpdate moved(std::move(update));  A member-wise move leaves
\* the source's string and vector valid but unspecified (emptied or kept).
MoveConstruct ==
  /\ op' = "MoveConstruct"
  /\ arg' = NoArg
  /\ ret' = [built |-> MoveConstructible("MockPendingUpdate")]
  /\ pre' = errors
  /\ IF MoveConstructible("MockPendingUpdate")
     THEN /\ other' = ThisInstance
          /\ owners' = {"aggregator"}
          /\ name_' \in {"", name_}
          /\ errors' \in {<< >>, errors}
     ELSE UNCHANGED <<other, owners, name_, errors>>
  /\ UNCHANGED <<id_, should_fail_, should_fail_commit_, apply_called_, commit_called_, expected, cleared, errors_>>
  /\ UNCHANGED storeVars
  /\ applyRun' = << >>

\* The owning std::unique_ptr<PendingUpdate> is moved to another handle: the
\* source pointer is left null and the object itself is not touched.
MoveHandle(to) ==
  /\ to \notin owners
  /\ op' = "MoveHandle"
  /\ arg' = [to |-> to]
  /\ ret' = Void
  /\ pre' = errors
  /\ owners' = {to}
  /\ UNCHANGED <<errors, mockVars, expected, other, cleared, errors_>>
  /\ UNCHANGED storeVars
  /\ applyRun' = << >>

NextOwner ==
  \/ \E name \in TwoNames : Len(errors) < MaxErrorsTwo /\ SetName(name)
  \/ \E id \in TwoIds : Len(errors) < MaxErrorsTwo /\ SetId(id)
  \/ Apply
  \/ Commit
  \/ \E fail \in BOOLEAN : SetShouldFailCommit(fail)
  \/ CopyConstruct
  \/ MoveConstruct
  \/ \E to \in Handles : MoveHandle(to)

SpecOwner == Init /\ [][NextOwner]_vars

(***************************************************************************)
(* The ErrorCollector on its own, driven through its public interface.     *)
(***************************************************************************)
AddErrorCall(kind, message) ==
  /\ Len(errors) < MaxErrors
  /\ op' = "AddError"
  /\ arg' = [err |-> Error(kind, message)]
  /\ ret' = Void
  /\ pre' = errors
  /\ errors' = AddError(errors, kind, message)
  /\ UNCHANGED <<mockVars, expected>>
  /\ UNCHANGED storeVars
  /\ UNCHANGED <<other, owners, cleared, errors_>>
  /\ UNCHANGED applyRun

AddErrorObjCall(err) ==
  /\ Len(errors) < MaxErrors
  /\ op' = "AddErrorObj"
  /\ arg' = [err |-> err]
  /\ ret' = Void
  /\ pre' = errors
  /\ errors' = AddErrorObj(errors, err)
  /\ UNCHANGED <<mockVars, expected>>
  /\ UNCHANGED storeVars
  /\ UNCHANGED <<other, owners, cleared, errors_>>
  /\ UNCHANGED applyRun

HasErrorsCall ==
  /\ op' = "HasErrors"
  /\ arg' = NoArg
  /\ ret' = [bool |-> HasErrors(errors)]
  /\ pre' = errors
  /\ UNCHANGED <<errors, mockVars, expected>>
  /\ UNCHANGED storeVars
  /\ UNCHANGED <<other, owners, cleared, errors_>>
  /\ UNCHANGED applyRun

ErrorCountCall ==
  /\ op' = "ErrorCount"
  /\ arg' = NoArg
  /\ ret' = [count |-> ErrorCount(errors)]
  /\ pre' = errors
  /\ UNCHANGED <<errors, mockVars, expected>>
  /\ UNCHANGED storeVars
  /\ UNCHANGED <<other, owners, cleared, errors_>>
  /\ UNCHANGED applyRun

\* CheckErrors() that hands the recorded errors out and forgets them.
CheckErrorsCallDrains ==
  /\ op' = "CheckErrors"
  /\ arg' = NoArg
  /\ ret' = CheckErrors(errors)
  /\ pre' = errors
  /\ errors' = << >>
  /\ UNCHANGED <<mockVars, expected>>
  /\ UNCHANGED storeVars
  /\ UNCHANGED <<other, owners, cleared, errors_>>
  /\ UNCHANGED applyRun

CheckErrorsCall ==
  /\ op' = "CheckErrors"
  /\ arg' = NoArg
  /\ ret' = CheckErrors(errors)
  /\ pre' = errors
  /\ UNCHANGED <<errors, mockVars, expected>>
  /\ UNCHANGED storeVars
  /\ UNCHANGED <<other, owners, cleared, errors_>>
  /\ UNCHANGED applyRun

ClearErrorsCall ==
  /\ op' = "ClearErrors"
  /\ arg' = NoArg
  /\ ret' = Void
  /\ pre' = errors
  /\ errors' = ClearErrors(errors)
  /\ UNCHANGED <<mockVars, expected>>
  /\ UNCHANGED storeVars
  /\ UNCHANGED <<other, owners, cleared, errors_>>
  /\ UNCHANGED applyRun

ErrorsCall ==
  /\ op' = "Errors"
  /\ arg' = NoArg
  /\ ret' = [all |-> Errors(errors)]
  /\ pre' = errors
  /\ UNCHANGED <<errors, mockVars, expected>>
  /\ UNCHANGED storeVars
  /\ UNCHANGED <<other, owners, cleared, errors_>>
  /\ UNCHANGED applyRun

NextCollector ==
  \/ \E kind \in ErrorKinds, message \in Messages : AddErrorCall(kind, message)
  \/ \E err \in ErrorValues : AddErrorObjCall(err)
  \/ HasErrorsCall
  \/ ErrorCountCall
  \/ CheckErrorsCall
  \/ ClearErrorsCall
  \/ ErrorsCall

SpecCollector == Init /\ [][NextCollector]_vars


(***************************************************************************)
(* A builder that is reused: its subclass calls the protected              *)
(* PendingUpdateTyped::ClearErrors() between two rounds of builder calls.  *)
(* The accumulator is the builder's ErrorCollector, read through that      *)
(* class's own HasErrors(), ErrorCount(), CheckErrors() and Errors().      *)
(***************************************************************************)
MaxErrorsReuse == 2

\* ClearErrors() of a builder whose reset also puts the staged fields back.
PendingClearErrorsResetsFields ==
  /\ op' = "ClearErrors"
  /\ arg' = NoArg
  /\ ret' = Void
  /\ pre' = errors
  /\ cleared' = errors
  /\ errors' = ClearErrors(errors)
  /\ expected' = << >>
  /\ name_' = ""
  /\ id_' = 0
  /\ UNCHANGED <<should_fail_, should_fail_commit_, apply_called_, commit_called_>>
  /\ UNCHANGED storeVars
  /\ UNCHANGED <<other, owners, errors_>>
  /\ applyRun' = << >>

\* PendingUpdateTyped::ClearErrors(): error_collector_.ClearErrors().  The
\* caller starts its count of invalid calls again.
PendingClearErrors ==
  /\ op' = "ClearErrors"
  /\ arg' = NoArg
  /\ ret' = Void
  /\ pre' = errors
  /\ cleared' = errors
  /\ errors' = ClearErrors(errors)
  /\ expected' = << >>
  /\ UNCHANGED mockVars
  /\ UNCHANGED storeVars
  /\ UNCHANGED <<other, owners, errors_>>
  /\ applyRun' = << >>

NextReuse ==
  \/ \E name \in TwoNames : Len(errors) < MaxErrorsReuse /\ SetName(name)
  \/ \E id \in TwoIds : Len(errors) < MaxErrorsReuse /\ SetId(id)
  \/ PendingClearErrors
  \/ HasErrorsCall
  \/ ErrorCountCall
  \/ CheckErrorsCall
  \/ ErrorsCall
  \/ Apply
  \/ Commit

SpecReuse == Init /\ [][NextReuse]_vars

(***************************************************************************)
(* The two definitions of PendingUpdateTyped's error helpers in            *)
(* pending_update.h: the one that delegates to its ErrorCollector          *)
(* (error_collector_, held in errors) and the one that keeps its own       *)
(* vector (errors_).  One builder of each is given the same calls.         *)
(***************************************************************************)
\* The delegating definition: each helper forwards to error_collector_.
TypedAddError(error_collector_, kind, message) == AddError(error_collector_, kind, message)
TypedHasErrors(error_collector_) == HasErrors(error_collector_)
TypedCheckErrors(error_collector_) == CheckErrors(error_collector_)
TypedClearErrors(error_collector_) == ClearErrors(error_collector_)

\* The vector-backed definition.
VecAddError(errs, kind, message) == Append(errs, [kind |-> kind, message |-> message])

VecHasErrors(errs) == ~(Len(errs) = 0)

RECURSIVE VecFormatErrors(_, _, _)
VecFormatErrors(errs, i, error_msg) ==
  IF i > Len(errs) THEN error_msg
  ELSE VecFormatErrors(errs, i + 1, error_msg \o "  - " \o errs[i].message \o "\n")

\* CheckErrors() that returns the first recorded error as it is.
VecCheckErrorsFirstOnly(errs) ==
  IF ~(Len(errs) = 0)
  THEN Unexpected(errs[1].kind, errs[1].message)
  ELSE OkStatus

VecCheckErrors(errs) ==
  IF ~(Len(errs) = 0)
  THEN Unexpected(kValidationFailed,
                  VecFormatErrors(errs, 1, "Validation failed due to the following errors:\n"))
  ELSE OkStatus

VecClearErrors(errs) == << >>

BothAddError(kind, message) ==
  /\ Len(errors) < MaxErrors
  /\ Len(errors_) < MaxErrors
  /\ op' = "BothAddError"
  /\ arg' = [err |-> Error(kind, message)]
  /\ ret' = Void
  /\ pre' = errors
  /\ errors' = TypedAddError(errors, kind, message)
  /\ errors_' = VecAddError(errors_, kind, message)
  /\ UNCHANGED <<mockVars, expected, cleared, other, owners, applyRun>>
  /\ UNCHANGED storeVars

BothClearErrors ==
  /\ op' = "BothClearErrors"
  /\ arg' = NoArg
  /\ ret' = Void
  /\ pre' = errors
  /\ errors' = TypedClearErrors(errors)
  /\ errors_' = VecClearErrors(errors_)
  /\ UNCHANGED <<mockVars, expected, cleared, other, owners, applyRun>>
  /\ UNCHANGED storeVars

BothHasErrors ==
  /\ op' = "BothHasErrors"
  /\ arg' = NoArg
  /\ ret' = [delegating |-> TypedHasErrors(errors), vector |-> VecHasErrors(errors_)]
  /\ pre' = errors
  /\ UNCHANGED <<errors, errors_, mockVars, expected, cleared, other, owners, applyRun>>
  /\ UNCHANGED storeVars

BothCheckErrors ==
  /\ op' = "BothCheckErrors"
  /\ arg' = NoArg
  /\ ret' = [delegating |-> TypedCheckErrors(errors), vector |-> VecCheckErrors(errors_)]
  /\ pre' = errors
  /\ UNCHANGED <<errors, errors_, mockVars, expected, cleared, other, owners, applyRun>>
  /\ UNCHANGED storeVars

NextVersions ==
  \/ \E kind \in ErrorKinds, message \in Messages : BothAddError(kind, message)
  \/ BothClearErrors
  \/ BothHasErrors
  \/ BothCheckErrors

SpecVersions == Init /\ [][NextVersions]_vars
(***************************************************************************)
(* The commit protocol against the external store.  PendingUpdate::Commit  *)
(* is pure virtual; the store and the Commit() that delegates to it follow *)
(* the protocol's description (Success / Conflict / Ambiguous), and the    *)
(* accumulator check in front of it is the ErrorCollector's.               *)
(***************************************************************************)
\* A store that applies the write without comparing versions (last writer wins).
StoreWriteNoCheck(expectedBase, current, delivered, applied) ==
  IF delivered
  THEN [applied |-> TRUE, reply |-> "Success"]
  ELSE [applied |-> applied, reply |-> "Ambiguous"]

\* The store's answer to a write conditioned on expected: whether the write
\* applied, and the reply that reaches the submitter.
StoreWrite(expectedBase, current, delivered, applied) ==
  IF expectedBase # current
  THEN [applied |-> FALSE, reply |-> IF delivered THEN "Conflict" ELSE "Ambiguous"]
  ELSE IF delivered
  THEN [applied |-> TRUE, reply |-> "Success"]
  ELSE [applied |-> applied, reply |-> "Ambiguous"]

\* The store's reply carried to the caller as a Status with collapsed kinds.
StatusOfReplyCollapsed(r) ==
  IF r = "Success" THEN OkStatus
  ELSE Unexpected(kCommitFailed, "commit failed")

\* The store's reply carried to the caller as a Status.
StatusOfReply(r) ==
  IF r = "Success" THEN OkStatus
  ELSE IF r = "Conflict" THEN Unexpected(kCommitFailed, "base version is stale")
  ELSE Unexpected(kCommitStateUnknown, "commit state unknown")

LifecycleOfReply(r) ==
  IF r = "Success" THEN "Committed"
  ELSE IF r = "Conflict" THEN "CommitFailed"
  ELSE "CommitStateUnknown"

StagedRecord(u) ==
  /\ lifecycle[u] # "Committed"
  /\ Len(acc[u]) < MaxErrors
  /\ op' = "StagedRecord"
  /\ arg' = [u |-> u]
  /\ ret' = Self
  /\ acc' = [acc EXCEPT ![u] = AddError(acc[u], kInvalidArgument, MsgNameEmpty)]
  /\ UNCHANGED <<base, lifecycle, storeVersion, storeWrites, reply, wins>>
  /\ UNCHANGED <<errors, mockVars, pre, expected, applyRun, other, owners, cleared, errors_>>

StagedClear(u) ==
  /\ lifecycle[u] # "Committed"
  /\ op' = "StagedClear"
  /\ arg' = [u |-> u]
  /\ ret' = Void
  /\ acc' = [acc EXCEPT ![u] = ClearErrors(acc[u])]
  /\ UNCHANGED <<base, lifecycle, storeVersion, storeWrites, reply, wins>>
  /\ UNCHANGED <<errors, mockVars, pre, expected, applyRun, other, owners, cleared, errors_>>

\* Commit() that submits the write again when the reply was lost.
StagedCommitRetry(u, delivered, applied) ==
  /\ lifecycle[u] # "Committed"
  /\ op' = "StagedCommit"
  /\ arg' = [u |-> u]
  /\ LET error_status == CheckErrors(acc[u]) IN
       IF ~error_status.ok
       THEN /\ ret' = error_status
            /\ lifecycle' = [lifecycle EXCEPT ![u] = "ValidationFailed"]
            /\ reply' = "None"
            /\ UNCHANGED <<base, storeVersion, storeWrites, wins>>
       ELSE LET w == StoreWrite(base[u], storeVersion, delivered, applied)
                v1 == IF w.applied THEN storeVersion + 1 ELSE storeVersion
                again == w.reply = "Ambiguous"
                w2 == StoreWrite(v1, v1, TRUE, TRUE) IN
              /\ storeWrites + 1 < MaxWrites
              /\ v1 + 1 <= MaxVersion
              /\ storeWrites' = IF again THEN storeWrites + 2 ELSE storeWrites + 1
              /\ storeVersion' = IF again THEN v1 + 1 ELSE v1
              /\ reply' = IF again THEN w2.reply ELSE w.reply
              /\ ret' = StatusOfReply(reply')
              /\ lifecycle' = [lifecycle EXCEPT ![u] = LifecycleOfReply(reply')]
              /\ base' = IF reply' = "Success"
                         THEN [base EXCEPT ![u] = storeVersion'] ELSE base
              /\ wins' = IF reply' = "Success"
                         THEN [wins EXCEPT ![v1] = @ \cup {u}] ELSE wins
  /\ UNCHANGED acc
  /\ UNCHANGED <<errors, mockVars, pre, expected, applyRun, other, owners, cleared, errors_>>

StagedCommit(u, delivered, applied) ==
  /\ lifecycle[u] # "Committed"
  /\ op' = "StagedCommit"
  /\ arg' = [u |-> u]
  /\ LET error_status == CheckErrors(acc[u]) IN
       IF ~error_status.ok
       THEN /\ ret' = error_status
            /\ lifecycle' = [lifecycle EXCEPT ![u] = "ValidationFailed"]
            /\ reply' = "None"
            /\ UNCHANGED <<base, storeVersion, storeWrites, wins>>
       ELSE LET w == StoreWrite(base[u], storeVersion, delivered, applied) IN
              /\ storeWrites < MaxWrites
              /\ w.applied => storeVersion < MaxVersion
              /\ storeWrites' = storeWrites + 1
              /\ storeVersion' = IF w.applied THEN storeVersion + 1 ELSE storeVersion
              /\ reply' = w.reply
              /\ ret' = StatusOfReply(w.reply)
              /\ lifecycle' = [lifecycle EXCEPT ![u] = LifecycleOfReply(w.reply)]
              /\ base' = IF w.reply = "Success"
                         THEN [base EXCEPT ![u] = storeVersion'] ELSE base
              /\ wins' = IF w.reply = "Success"
                         THEN [wins EXCEPT ![base[u]] = @ \cup {u}] ELSE wins
  /\ UNCHANGED acc
  /\ UNCHANGED <<errors, mockVars, pre, expected, applyRun, other, owners, cleared, errors_>>

\* The caller re-reads the object and re-derives the staged update from it.
StagedRefresh(u) ==
  /\ lifecycle[u] \in {"CommitFailed", "CommitStateUnknown"}
  /\ op' = "StagedRefresh"
  /\ arg' = [u |-> u]
  /\ ret' = Void
  /\ base' = [base EXCEPT ![u] = storeVersion]
  /\ lifecycle' = [lifecycle EXCEPT ![u] = "Building"]
  /\ UNCHANGED <<acc, storeVersion, storeWrites, reply, wins>>
  /\ UNCHANGED <<errors, mockVars, pre, expected, applyRun, other, owners, cleared, errors_>>

NextStore ==
  \/ \E u \in Updates : StagedRecord(u)
  \/ \E u \in Updates : StagedClear(u)
  \/ \E u \in Updates, delivered \in BOOLEAN, applied \in BOOLEAN : StagedCommit(u, delivered, applied)
  \/ \E u \in Updates : StagedRefresh(u)

SpecStore == Init /\ [][NextStore]_vars

(***************************************************************************)
(* Properties.                                                             *)
(***************************************************************************)

\* C1: a Commit() made while the accumulator holds an error returns
\* ValidationFailed, leaves commit_called_ as it was and never returns the
\* store's CommitFailed, whatever should_fail_commit_ says.
C1_CommitWithErrorsSkipsStore ==
  [][(op' = "Commit" /\ HasErrors(errors)) =>
       /\ ~ret'.ok
       /\ ret'.kind = kValidationFailed
       /\ ret'.kind # kCommitFailed
       /\ ret'.message # MsgMockCommit
       /\ commit_called_' = commit_called_]_vars

C1_Witness ==
  /\ op = "Commit"
  /\ HasErrors(pre)
  /\ should_fail_commit_
  /\ ~commit_called_
  /\ ret.kind = kValidationFailed

\* C2 (as stated): after any builder calls of which k were invalid, Apply()
\* and Commit() return ValidationFailed iff k > 0, the message then holds the
\* k messages in the order recorded, and a valid call leaves the recorded
\* errors alone.
C2_AsStated ==
  /\ (op \in {"Apply", "Commit"}) =>
       /\ (~ret.ok /\ ret.kind = kValidationFailed) <=> (Len(expected) > 0)
       /\ Len(expected) > 0 => ContainsInOrder(ret.message, expected, 1, 1)
  /\ (op = "SetName" /\ ~InvalidName(arg.name)) => errors = pre
  /\ (op = "SetId" /\ ~InvalidId(arg.id)) => errors = pre

\* C2 (amended): Commit() returns ValidationFailed iff k > 0, Apply() returns
\* ValidationFailed iff k > 0 or should_fail_ is set; when k > 0 the message
\* holds the k messages in the order recorded; a valid call leaves the
\* recorded errors alone.
C2_ValidationFailedIffInvalidCalls ==
  /\ (op = "Commit") =>
       ((~ret.ok /\ ret.kind = kValidationFailed) <=> (Len(expected) > 0))
  /\ (op = "Apply") =>
       ((~ret.ok /\ ret.kind = kValidationFailed) <=> (Len(expected) > 0 \/ should_fail_))
  /\ (op \in {"Apply", "Commit"} /\ Len(expected) > 0) =>
       /\ ContainsInOrder(ret.message, expected, 1, 1)
       /\ MessagesOf(errors) = expected
  /\ (op = "SetName" /\ ~InvalidName(arg.name)) => errors = pre
  /\ (op = "SetId" /\ ~InvalidId(arg.id)) => errors = pre

C2_Witness ==
  /\ op = "Apply"
  /\ expected = <<MsgNameEmpty, MsgIdNegative>>
  /\ name_ = "valid_name"
  /\ ret.kind = kValidationFailed
  /\ Contains(ret.message, MsgNameEmpty)
  /\ Contains(ret.message, MsgIdNegative)

\* C3: a Commit() made with an empty accumulator while the store refuses
\* (should_fail_commit_) returns CommitFailed with the store's message, never
\* ValidationFailed, CommitStateUnknown or ok.
C3_ConflictIsCommitFailed ==
  (op = "Commit" /\ ~HasErrors(pre) /\ should_fail_commit_) =>
     /\ ~ret.ok
     /\ ret.kind = kCommitFailed
     /\ ret.message = MsgMockCommit
     /\ ret.kind \notin {kValidationFailed, kCommitStateUnknown}

C3_Witness ==
  /\ op = "Commit"
  /\ ~HasErrors(pre)
  /\ should_fail_commit_
  /\ ret = Unexpected(kCommitFailed, MsgMockCommit)

\* C4: a Commit() made with an empty accumulator whose write was submitted
\* but whose reply was lost returns CommitStateUnknown, which is neither
\* CommitFailed nor ok; Success, Conflict and Ambiguous each reach the caller
\* as their own outcome (ok, CommitFailed, CommitStateUnknown).
C4_AmbiguousIsCommitStateUnknown ==
  (op = "StagedCommit" /\ ~HasErrors(acc[arg.u])) =>
     /\ reply \in {"Success", "Conflict", "Ambiguous"}
     /\ (reply = "Ambiguous") => (~ret.ok /\ ret.kind = kCommitStateUnknown /\ ret.kind # kCommitFailed)
     /\ (reply = "Success") <=> ret.ok
     /\ (reply = "Conflict") <=> (~ret.ok /\ ret.kind = kCommitFailed)
     /\ (reply = "Ambiguous") <=> (~ret.ok /\ ret.kind = kCommitStateUnknown)
     /\ lifecycle[arg.u] = LifecycleOfReply(reply)

C4_Witness ==
  /\ op = "StagedCommit"
  /\ ~HasErrors(acc[arg.u])
  /\ reply = "Ambiguous"
  /\ storeVersion = base[arg.u] + 1
  /\ ret.kind = kCommitStateUnknown

\* C5: every step submits at most one write and applies at most one, and
\* only a Commit() step submits or applies any; so after CommitStateUnknown
\* or CommitFailed nothing more reaches the store until Commit() is called
\* again.
C5_NoAutoRetry ==
  [][/\ storeWrites' <= storeWrites + 1
     /\ storeVersion' <= storeVersion + 1
     /\ (storeWrites' # storeWrites \/ storeVersion' # storeVersion) => op' = "StagedCommit"
     /\ (op' = "StagedCommit" /\ HasErrors(acc[arg'.u])) =>
          (storeWrites' = storeWrites /\ storeVersion' = storeVersion)]_vars

C5_Witness ==
  /\ op = "StagedRecord"
  /\ arg.u = 1
  /\ lifecycle[1] = "CommitStateUnknown"
  /\ lifecycle[2] = "Building"
  /\ storeWrites = 1
  /\ storeVersion = 1

\* C6: in every state of the collector, HasErrors() is false iff
\* CheckErrors() returns ok, and both hold exactly when ErrorCount() is 0.
C6_HasErrorsIffCheckFails ==
  /\ (HasErrors(errors) = FALSE) <=> CheckErrors(errors).ok
  /\ CheckErrors(errors).ok <=> (ErrorCount(errors) = 0)
  /\ (op = "HasErrors") => (ret.bool = FALSE <=> CheckErrors(errors).ok)
  /\ (op = "CheckErrors") => (ret.ok <=> ~HasErrors(errors))

C6_Witness ==
  /\ op = "CheckErrors"
  /\ ~ret.ok
  /\ HasErrors(errors)
  /\ ErrorCount(errors) = 1

\* C7 (as stated): CheckErrors() on a non-empty collector returns one
\* ValidationFailed whose message is the header line followed by exactly one
\* line per recorded error, in insertion order, each "  - " and the message.
C7_AsStated ==
  (op = "CheckErrors" /\ HasErrors(pre)) =>
     /\ ~ret.ok
     /\ ret.kind = kValidationFailed
     /\ LinesOf(ret.message).rest = ""
     /\ LinesOf(ret.message).lines = <<HeaderLine>> \o BulletLines(pre)

\* C7 (amended): the same, for a collector none of whose recorded messages
\* holds a line break; the message as a whole is always the header followed
\* by "  - ", the message and a line break for each error in insertion order.
C7_OneLinePerError ==
  (op = "CheckErrors" /\ HasErrors(pre)) =>
     /\ ~ret.ok
     /\ ret.kind = kValidationFailed
     /\ StartsWith(ret.message, CheckHeader)
     /\ ContainsInOrder(ret.message, BulletLines(pre), 1, Len(CheckHeader) + 1)
     /\ (\A i \in 1..Len(pre) : ~HasLineBreak(pre[i].message)) =>
          /\ LinesOf(ret.message).rest = ""
          /\ LinesOf(ret.message).lines = <<HeaderLine>> \o BulletLines(pre)
          /\ [i \in 1..Len(pre) |->
                SubSeq(LinesOf(ret.message).lines[i + 1], Len(BulletPrefix) + 1,
                       Len(LinesOf(ret.message).lines[i + 1]))] = MessagesOf(pre)

C7_Witness ==
  /\ op = "CheckErrors"
  /\ Len(pre) = 2
  /\ pre[1].message = MsgIdNegative
  /\ pre[2].message = "External error message"
  /\ Len(LinesOf(ret.message).lines) = 3

\* C8: AddError never fails and appends: the count grows by one, the error
\* is the last of Errors(), the earlier errors are unchanged, and an error
\* equal to a recorded one is appended all the same.
C8_AddErrorAppends ==
  (op \in {"AddError", "AddErrorObj"}) =>
     /\ ret = Void
     /\ ErrorCount(errors) = ErrorCount(pre) + 1
     /\ Errors(errors)[ErrorCount(errors)] = arg.err
     /\ SubSeq(Errors(errors), 1, ErrorCount(pre)) = Errors(pre)

C8_Witness ==
  /\ op = "AddError"
  /\ ErrorCount(errors) = 2
  /\ errors[1] = errors[2]
  /\ arg.err = errors[1]

\* C9: after ClearErrors(), whatever was recorded, HasErrors() is false,
\* ErrorCount() is 0, Errors() is empty and CheckErrors() returns ok.
C9_ClearResets ==
  (op = "ClearErrors") =>
     /\ HasErrors(errors) = FALSE
     /\ ErrorCount(errors) = 0
     /\ Errors(errors) = << >>
     /\ CheckErrors(errors) = OkStatus

C9_Witness ==
  /\ op = "ClearErrors"
  /\ Len(pre) >= 2
  /\ ~HasErrors(errors)

\* C10: an Apply() made while the accumulator holds an error returns the
\* aggregate ValidationFailed of CheckErrors(), not the subclass's own
\* failure, returns no value and leaves apply_called_ as it was.
C10_ApplyChecksFirst ==
  [][(op' = "Apply" /\ HasErrors(errors)) =>
       /\ ~ret'.ok
       /\ ret'.kind = kValidationFailed
       /\ ret'.message = CheckErrors(errors).message
       /\ ret'.message # MsgMockValidation
       /\ ret'.value = NoValue
       /\ apply_called_' = apply_called_]_vars

C10_Witness ==
  /\ op = "Apply"
  /\ HasErrors(pre)
  /\ should_fail_
  /\ ~apply_called_
  /\ ret.kind = kValidationFailed
  /\ Contains(ret.message, MsgNameEmpty)

\* C11: Apply() is a dry run: whatever it returns, it leaves the staged
\* fields (name_, id_), the recorded errors and everything a commit would
\* change (commit_called_, the store) as they were.
C11_ApplyIsDryRun ==
  [][(op' = "Apply") =>
       /\ name_' = name_
       /\ id_' = id_
       /\ errors' = errors
       /\ commit_called_' = commit_called_
       /\ should_fail_' = should_fail_
       /\ should_fail_commit_' = should_fail_commit_
       /\ storeVars' = storeVars]_vars

C11_Witness ==
  /\ op = "Apply"
  /\ Len(applyRun) = 2
  /\ name_ = "valid_name"
  /\ id_ = 42
  /\ HasErrors(errors)
  /\ ~commit_called_

\* C12: on an instance with no recorded error, two Apply() calls with no
\* mutating call between them return equal results.
C12_ApplyTwiceEqual ==
  (Len(applyRun) = 2 /\ ~HasErrors(errors)) => applyRun[1] = applyRun[2]

C12_Witness ==
  /\ op = "Apply"
  /\ Len(applyRun) = 2
  /\ ~HasErrors(errors)
  /\ applyRun[1].ok
  /\ applyRun[2].ok
  /\ applyRun[2].value = MockSnapshot("valid_name")

\* C16: with no recorded error and no induced failure, Apply() returns
\* success with a value whose name is the staged name, and the staged name
\* is the argument of the last valid SetName call.
C16_ApplyReturnsStagedName ==
  [][/\ (op' = "Apply" /\ ~HasErrors(errors) /\ ~should_fail_) =>
          (ret'.ok /\ ret'.value = MockSnapshot(name_))
     /\ (op' = "SetName" /\ ~InvalidName(arg'.name)) => name_' = arg'.name
     /\ (name_' # name_) => (op' = "SetName" /\ ~InvalidName(arg'.name))]_vars

C16_Witness ==
  /\ op = "Apply"
  /\ ~HasErrors(pre)
  /\ name_ = "valid_name"
  /\ id_ = 42
  /\ ret.ok
  /\ ret.value.name = "valid_name"

\* C13: Commit() made through the untyped handle has the outcome and the
\* effect of Commit() made on the MockPendingUpdate itself, in every state:
\* both return the same function of the recorded errors and of
\* should_fail_commit_ and mark commit_called_ exactly on success.
TypedCommitResult(errs, fail) ==
  IF HasErrors(errs) THEN CheckErrors(errs)
  ELSE IF fail THEN Unexpected(kCommitFailed, MsgMockCommit)
  ELSE OkStatus

C13_BaseCommitSameAsTyped ==
  [][(op' \in {"Commit", "BaseCommit"}) =>
       /\ ret' = TypedCommitResult(errors, should_fail_commit_)
       /\ commit_called_' = (commit_called_ \/ ret'.ok)
       /\ <<errors, name_, id_, should_fail_, should_fail_commit_, apply_called_>>'
            = <<errors, name_, id_, should_fail_, should_fail_commit_, apply_called_>>]_vars

C13_Witness ==
  /\ op = "BaseCommit"
  /\ arg.handle = "PendingUpdate"
  /\ should_fail_commit_
  /\ ~HasErrors(errors)
  /\ ret = Unexpected(kCommitFailed, MsgMockCommit)

\* C14: every builder call, valid or not, returns the builder itself, and a
\* call made after an invalid one is evaluated in full: it records its own
\* error when invalid and stages its value when valid.
C14_BuilderNeverAborts ==
  /\ (op \in {"SetName", "SetId"}) => ret = Self
  /\ (op = "SetName" /\ InvalidName(arg.name)) =>
        errors = Append(pre, Error(kInvalidArgument, ExpectedNameMessage(arg.name)))
  /\ (op = "SetName" /\ ~InvalidName(arg.name)) => (name_ = arg.name /\ errors = pre)
  /\ (op = "SetId" /\ InvalidId(arg.id)) =>
        errors = Append(pre, Error(kInvalidArgument, MsgIdNegative))
  /\ (op = "SetId" /\ ~InvalidId(arg.id)) => (id_ = arg.id /\ errors = pre)

C14_Witness ==
  /\ op = "SetId"
  /\ arg.id = 42
  /\ id_ = 42
  /\ ret = Self
  /\ Len(errors) = 2
  /\ errors[1].message = MsgNameEmpty
  /\ errors[2].message = MsgIdNegative

\* C15: a Commit() that fails returns ValidationFailed, CommitFailed or
\* CommitStateUnknown and nothing else; the kind of a recorded error
\* (InvalidArgument) is never the kind of the result.
C15_CommitFailureKinds ==
  (op \in {"Commit", "BaseCommit"}) =>
     /\ ret.ok \/ ret.kind \in {kValidationFailed, kCommitFailed, kCommitStateUnknown}
     /\ ret.kind # kInvalidArgument
     /\ HasErrors(pre) => ret.kind = kValidationFailed

C15_Witness ==
  /\ op = "Commit"
  /\ Len(pre) = 2
  /\ pre[1].kind = kInvalidArgument
  /\ pre[2].kind = kInvalidArgument
  /\ ret.kind = kValidationFailed

\* C17: a Commit() that returns CommitFailed leaves commit_called_ and
\* every other field of the update as they were.
C17_CommitFailedChangesNothing ==
  [][(op' \in {"Commit", "BaseCommit"} /\ ~ret'.ok /\ ret'.kind = kCommitFailed) =>
       /\ commit_called_' = commit_called_
       /\ <<errors, name_, id_, should_fail_, should_fail_commit_, apply_called_>>'
            = <<errors, name_, id_, should_fail_, should_fail_commit_, apply_called_>>
       /\ storeVars' = storeVars]_vars

C17_Witness ==
  /\ op = "Commit"
  /\ ret = Unexpected(kCommitFailed, MsgMockCommit)
  /\ ~commit_called_
  /\ name_ = "valid_name"

\* C18: a Commit() that returns success applied its write against the
\* base version the update expected, which was the store's current one; the
\* store moved to the next version, the update is Committed and its view is
\* the new version.
C18_SuccessAppliedAgainstBase ==
  [][(op' = "StagedCommit" /\ ret'.ok) =>
       /\ ~HasErrors(acc[arg'.u])
       /\ base[arg'.u] = storeVersion
       /\ storeVersion' = storeVersion + 1
       /\ storeWrites' = storeWrites + 1
       /\ lifecycle'[arg'.u] = "Committed"
       /\ base'[arg'.u] = storeVersion']_vars

C18_Witness ==
  /\ op = "StagedCommit"
  /\ ret.ok
  /\ lifecycle[arg.u] = "Committed"
  /\ storeVersion = 2
  /\ base[arg.u] = 2

\* C19: a call on one MockPendingUpdate leaves every field of the other
\* one (recorded errors, staged fields, flags) as it was, so what the other
\* one's Apply() and Commit() return is not changed by it.
C19_InstancesShareNothing ==
  [][(op' # "Switch") => other' = other]_vars

C19_Witness ==
  /\ op = "Apply"
  /\ ret.ok
  /\ ret.value = MockSnapshot("valid_name")
  /\ ~HasErrors(errors)
  /\ HasErrors(other.errors)
  /\ other.name_ = ""
  /\ other.commit_called_

\* C20 (as stated): of two updates derived from the same base version, at
\* most one gets Success against it and the other, committing on the stale
\* base version, gets CommitFailed.
C20_AsStated ==
  /\ \A v \in DOMAIN wins : Cardinality(wins[v]) <= 1
  /\ (/\ op = "StagedCommit"
      /\ ~HasErrors(acc[arg.u])
      /\ wins[base[arg.u]] \ {arg.u} # {}) => ret.kind = kCommitFailed

\* C20 (amended): at most one gets Success against that base version; the
\* other never gets Success: it gets CommitFailed when the store's reply
\* reaches it and CommitStateUnknown when the reply is lost.
C20_AtMostOneSuccessPerBase ==
  /\ \A v \in DOMAIN wins : Cardinality(wins[v]) <= 1
  /\ (/\ op = "StagedCommit"
      /\ ~HasErrors(acc[arg.u])
      /\ wins[base[arg.u]] \ {arg.u} # {}) =>
        /\ ~ret.ok
        /\ ret.kind = (IF reply = "Ambiguous" THEN kCommitStateUnknown ELSE kCommitFailed)
        /\ reply \in {"Conflict", "Ambiguous"}

C20_Witness ==
  /\ op = "StagedCommit"
  /\ arg.u = 2
  /\ base[2] = 0
  /\ wins[0] = {1}
  /\ ret.kind = kCommitFailed
  /\ lifecycle[1] = "Committed"
  /\ storeWrites = 2

\* C21 (as stated): a staged update has exactly one owner at all times; it
\* cannot be copied; it can be moved, by value or by handing its owning
\* pointer over, and the new owner then holds the recorded errors and the
\* staged fields the original held, so that its Apply() and Commit() return
\* what the original's would have.
C21_AsStated ==
  [][/\ Cardinality(owners') = 1
     /\ (op' = "CopyConstruct") => ~ret'.built
     /\ (op' = "MoveConstruct") =>
          /\ ret'.built
          /\ other' = ThisInstance
     /\ (op' = "MoveHandle") =>
          /\ owners' # owners
          /\ ThisInstance' = ThisInstance]_vars

\* C22: an Apply() made with an empty accumulator while the subclass's
\* semantic validation fails (should_fail_) returns ValidationFailed with
\* the semantic error's message and no value.
C22_SemanticFailureIsValidationFailed ==
  (op = "Apply" /\ ~HasErrors(pre) /\ should_fail_) =>
     /\ ~ret.ok
     /\ ret.kind = kValidationFailed
     /\ ret.message = MsgMockValidation
     /\ ret.value = NoValue

C22_Witness ==
  /\ op = "Apply"
  /\ pre = << >>
  /\ should_fail_
  /\ name_ = "valid_name"
  /\ ret = Unexpected(kValidationFailed, MsgMockValidation)

\* C23: commit_called_ is false on a new instance and becomes true exactly
\* at a Commit() that returns ok, never otherwise, and is never taken back:
\* in every state it is true iff an earlier Commit() returned ok.  A
\* Commit() returns ok only when the accumulator was empty and the store
\* did not refuse at that call.
C23_CommitCalledIffCommitOk ==
  /\ ~commit_called_
  /\ [][/\ commit_called_' =
             (commit_called_ \/ (op' \in {"Commit", "BaseCommit"} /\ ret'.ok))
        /\ (op' \in {"Commit", "BaseCommit"} /\ ret'.ok) =>
             (~HasErrors(errors) /\ ~should_fail_commit_)]_vars

C23_Witness ==
  /\ op = "Commit"
  /\ ~ret.ok
  /\ ret.kind = kCommitFailed
  /\ should_fail_commit_
  /\ commit_called_

\* C24: what Commit() returns and does is decided by the recorded errors
\* and by the store alone, whether Apply() has been called or not; Apply()
\* changes nothing of what Commit() reads or writes.
C24_CommitIndependentOfApply ==
  [][/\ (op' = "Commit") =>
          /\ ret' = (IF HasErrors(errors) THEN CheckErrors(errors)
                     ELSE IF should_fail_commit_ THEN Unexpected(kCommitFailed, MsgMockCommit)
                     ELSE OkStatus)
          /\ commit_called_' = (commit_called_ \/ ret'.ok)
          /\ apply_called_' = apply_called_
     /\ (op' = "Apply") =>
          <<errors, should_fail_commit_, commit_called_>>'
            = <<errors, should_fail_commit_, commit_called_>>]_vars

C24_Witness ==
  /\ op = "Commit"
  /\ ret.ok
  /\ commit_called_
  /\ ~apply_called_
  /\ applyRun = << >>
  /\ name_ = "valid_name"

\* C25: ClearErrors() empties the accumulator and leaves every staged
\* field as it was; from then on CheckErrors() and Errors() report exactly
\* the errors recorded since, in the order recorded, and none of those the
\* ClearErrors() dropped.
C25_ReusableAfterClear ==
  [][/\ (op' = "ClearErrors") =>
          /\ errors' = << >>
          /\ mockVars' = mockVars
     /\ (op' = "Errors") => MessagesOf(ret'.all) = expected'
     /\ (op' = "CheckErrors") =>
          IF expected' = << >> THEN ret' = OkStatus
          ELSE /\ ~ret'.ok
               /\ ret'.kind = kValidationFailed
               /\ LinesOf(ret'.message) =
                    [lines |-> <<HeaderLine>> \o
                                 [i \in 1..Len(expected') |-> BulletPrefix \o expected'[i]],
                     rest |-> ""]]_vars

C25_Witness ==
  /\ op = "CheckErrors"
  /\ cleared = <<Error(kInvalidArgument, MsgNameEmpty)>>
  /\ errors = <<Error(kInvalidArgument, MsgIdNegative)>>
  /\ name_ = "valid_name"
  /\ Contains(ret.message, MsgIdNegative)
  /\ ~Contains(ret.message, MsgNameEmpty)

\* C26: an invalid SetName or SetId call records exactly one error and
\* leaves name_ and id_ as they were, so a value staged by an earlier valid
\* call is still staged after it.
C26_InvalidCallKeepsStagedField ==
  [][/\ (op' = "SetName" /\ InvalidName(arg'.name)) =>
          /\ Len(errors') = Len(errors) + 1
          /\ name_' = name_
          /\ id_' = id_
     /\ (op' = "SetId" /\ InvalidId(arg'.id)) =>
          /\ Len(errors') = Len(errors) + 1
          /\ id_' = id_
          /\ name_' = name_]_vars

C26_Witness ==
  /\ op = "SetName"
  /\ arg.name = Name101
  /\ name_ = "valid_name"
  /\ id_ = 42
  /\ errors = Append(pre, Error(kInvalidArgument, MsgNameTooLong))

\* The calls that record an error and the calls that only read the
\* accumulator or run against it.
RecordingOps == {"SetName", "SetId", "TestAddExistingError", "AddError", "AddErrorObj"}
ReadingOps == {"HasErrors", "ErrorCount", "CheckErrors", "Errors", "Apply", "Commit"}

\* C27 (as stated): only a recording call adds to the accumulator and only
\* ClearErrors() removes from it; the reading calls, Apply() and Commit()
\* leave it unchanged; once an error is recorded, Apply() and Commit()
\* return one and the same ValidationFailed message at every later call
\* until ClearErrors(); two consecutive CheckErrors() return the same.
C27_AsStated ==
  [][/\ (Len(errors') > Len(errors)) =>
          (op' \in RecordingOps /\ SubSeq(errors', 1, Len(errors)) = errors)
     /\ (Len(errors') < Len(errors)) => op' = "ClearErrors"
     /\ (op' \in ReadingOps) => errors' = errors
     /\ (op' \in {"Apply", "Commit"} /\ HasErrors(errors)) =>
          /\ ~ret'.ok
          /\ ret'.kind = kValidationFailed
          /\ ret'.message = CheckErrors(errors).message
     /\ (HasErrors(errors) /\ op' # "ClearErrors") =>
          CheckErrors(errors').message = CheckErrors(errors).message
     /\ (op = "CheckErrors" /\ op' = "CheckErrors") => ret' = ret]_vars

\* C27 (amended): as above, but the message Apply() and Commit() return
\* stays the same only as long as no further error is recorded; a further
\* recorded error adds its line after the lines already reported, and a
\* valid builder call changes nothing of it.
C27_RecordedErrorsAreSticky ==
  [][/\ (Len(errors') > Len(errors)) =>
          (op' \in RecordingOps /\ SubSeq(errors', 1, Len(errors)) = errors)
     /\ (Len(errors') < Len(errors)) => op' = "ClearErrors"
     /\ (op' \in ReadingOps) => errors' = errors
     /\ (op' \in {"Apply", "Commit"} /\ HasErrors(errors)) =>
          /\ ~ret'.ok
          /\ ret'.kind = kValidationFailed
          /\ ret'.message = CheckErrors(errors).message
     /\ (HasErrors(errors) /\ op' # "ClearErrors") =>
          /\ HasErrors(errors')
          /\ StartsWith(CheckErrors(errors').message, CheckErrors(errors).message)
          /\ (Len(errors') = Len(errors)) =>
               CheckErrors(errors').message = CheckErrors(errors).message
     /\ (op = "CheckErrors" /\ op' = "CheckErrors") => ret' = ret]_vars

C27_Witness ==
  /\ op = "Apply"
  /\ errors = <<Error(kInvalidArgument, MsgNameEmpty)>>
  /\ name_ = "valid_name"
  /\ cleared # << >>
  /\ ~ret.ok
  /\ ret.message = CheckErrors(errors).message

\* C28: a failure of the subclass's validation inside Apply() and a
\* CommitFailed of the store inside Commit() are returned and not recorded:
\* the accumulator is as empty after the call as before it; and whenever
\* the accumulator is empty and the cause is not set, Apply() and Commit()
\* succeed, whatever failed before on the instance.
C28_CallFailuresNotRecorded ==
  /\ (op = "Apply" /\ ~HasErrors(pre) /\ ~ret.ok) =>
        /\ ret = Unexpected(kValidationFailed, MsgMockValidation)
        /\ errors = pre
        /\ ~HasErrors(errors)
  /\ (op \in {"Commit", "BaseCommit"} /\ ~ret.ok /\ ret.kind = kCommitFailed) =>
        /\ errors = pre
        /\ ~HasErrors(errors)
  /\ (op = "Apply" /\ ~HasErrors(pre) /\ ~should_fail_) => ret.ok
  /\ (op \in {"Commit", "BaseCommit"} /\ ~HasErrors(pre) /\ ~should_fail_commit_) => ret.ok

C28_Witness ==
  /\ op = "Apply"
  /\ ~ret.ok
  /\ ret.message = MsgMockValidation
  /\ errors = << >>
  /\ ~HasErrors(errors)
  /\ commit_called_
  /\ should_fail_commit_

\* C29: recording an existing Error{kind, message} leaves the accumulator
\* as recording (kind, message) leaves it, and the other way round for the
\* builder's own errors, so CheckErrors() and Apply() return the same for
\* both; an error added from outside has its line in Apply()'s aggregate
\* ValidationFailed, in the position it was recorded at, like the builder's.
C29_RecordOverloadsEquivalent ==
  /\ \A e \in ExternalErrors :
        /\ AddErrorObj(errors, e) = AddError(errors, e.kind, e.message)
        /\ CheckErrors(AddErrorObj(errors, e)) = CheckErrors(AddError(errors, e.kind, e.message))
  /\ (op = "TestAddExistingError") =>
        errors = AddError(pre, arg.err.kind, arg.err.message)
  /\ (op = "SetName" /\ InvalidName(arg.name)) =>
        errors = AddErrorObj(pre, Error(kInvalidArgument, ExpectedNameMessage(arg.name)))
  /\ (op = "SetId" /\ InvalidId(arg.id)) =>
        errors = AddErrorObj(pre, Error(kInvalidArgument, MsgIdNegative))
  /\ (op = "Apply" /\ HasErrors(pre)) =>
        /\ ~ret.ok
        /\ ret.kind = kValidationFailed
        /\ StartsWith(ret.message, CheckHeader)
        /\ ContainsInOrder(ret.message,
                           [i \in 1..Len(pre) |-> BulletPrefix \o pre[i].message \o "\n"],
                           1, Len(CheckHeader) + 1)

C29_Witness ==
  /\ op = "Apply"
  /\ pre = <<Error(kInvalidArgument, MsgNameEmpty),
             Error(kInvalidArgument, "External error message")>>
  /\ ret.kind = kValidationFailed
  /\ Contains(ret.message, "  - External error message\n")
  /\ Contains(ret.message, "  - Name cannot be empty\n")

\* C30: after the same AddError(kind, message) and ClearErrors() calls,
\* the delegating and the vector-backed definition return the same
\* HasErrors() value and the same CheckErrors() result, kind and message.
C30_HelperVersionsEquivalent ==
  /\ (op = "BothHasErrors") => ret.delegating = ret.vector
  /\ (op = "BothCheckErrors") =>
        /\ ret.delegating.ok = ret.vector.ok
        /\ ret.delegating.kind = ret.vector.kind
        /\ ret.delegating.message = ret.vector.message

C30_Witness ==
  /\ op = "BothCheckErrors"
  /\ Len(errors_) = 2
  /\ errors_[1].kind = kValidationFailed
  /\ errors_[2].kind = kInvalidArgument
  /\ ret.vector.kind = kValidationFailed
  /\ ret.vector.message = ret.delegating.message
  /\ Contains(ret.vector.message, "  - External error message\n")

====
